---- MODULE Spec2Model ----
(***************************************************************************)
(* Model of the TieList CSV engine (core/processor.py): file selection,    *)
(* schema detection, row aggregation, yearly merge and the folder runs.    *)
(* Text is modelled as sequences of one-character strings so that          *)
(* strip(), lower(), startswith(), endswith(), slicing and sorted() are    *)
(* computed the way Python computes them.                                  *)
(***************************************************************************)
EXTENDS Integers, Sequences, FiniteSets, TLC

\* ------------------------------------------------------------------ text

\* The characters used by the model, in code-point order (Python compares
\* strings by code point, so only the relative order matters to sorted()).
Alphabet ==
    << " ", "-", ".", "/", "0", "1", "2", "3", "4", "5", "6", "7", "8", "9",
       "A", "B", "C", "D", "E", "F", "G", "H", "I", "J", "K", "L", "M", "N",
       "O", "P", "Q", "R", "S", "T", "U", "V", "W", "X", "Y", "Z", "_",
       "a", "b", "c", "d", "e", "f", "g", "h", "i", "j", "k", "l", "m", "n",
       "o", "p", "q", "r", "s", "t", "u", "v", "w", "x", "y", "z" >>

Ord(c) == CHOOSE i \in 1..Len(Alphabet) : Alphabet[i] = c

UpperChars == SubSeq(Alphabet, 15, 40)
LowerChars == SubSeq(Alphabet, 42, 67)

\* str.lower() on one character
LowerChar(c) ==
    IF \E i \in 1..Len(UpperChars) : UpperChars[i] = c
    THEN LowerChars[CHOOSE i \in 1..Len(UpperChars) : UpperChars[i] = c]
    ELSE c

\* str.upper() on one character
UpperChar(c) ==
    IF \E i \in 1..Len(LowerChars) : LowerChars[i] = c
    THEN UpperChars[CHOOSE i \in 1..Len(LowerChars) : LowerChars[i] = c]
    ELSE c

\* str.lower()
Lower(s) == [i \in 1..Len(s) |-> LowerChar(s[i])]

\* str.capitalize(): first character upper-cased, the rest lower-cased
Capitalize(s) ==
    [i \in 1..Len(s) |-> IF i = 1 THEN UpperChar(s[i]) ELSE LowerChar(s[i])]

IsSpace(c) == c = " "

\* str.strip(): drop leading and trailing whitespace
RECURSIVE LStrip(_)
LStrip(s) ==
    IF s # <<>> /\ IsSpace(Head(s)) THEN LStrip(Tail(s)) ELSE s

RECURSIVE RStrip(_)
RStrip(s) ==
    IF s # <<>> /\ IsSpace(s[Len(s)])
    THEN RStrip(SubSeq(s, 1, Len(s) - 1))
    ELSE s

Strip(s) == RStrip(LStrip(s))

\* str.startswith / str.endswith
StartsWith(s, p) == Len(s) >= Len(p) /\ SubSeq(s, 1, Len(p)) = p
EndsWith(s, p) ==
    Len(s) >= Len(p) /\ SubSeq(s, Len(s) - Len(p) + 1, Len(s)) = p

\* "p in s" for strings
Contains(s, p) ==
    \E i \in 1..(Len(s) - Len(p) + 1) : SubSeq(s, i, i + Len(p) - 1) = p

\* Python's str "<": lexicographic by code point, a proper prefix is smaller
RECURSIVE StrLess(_, _)
StrLess(a, b) ==
    IF b = <<>> THEN FALSE
    ELSE IF a = <<>> THEN TRUE
    ELSE IF Head(a) = Head(b) THEN StrLess(Tail(a), Tail(b))
    ELSE Ord(Head(a)) < Ord(Head(b))

\* mutation of SortedStrs: descending order
RECURSIVE SortedStrsDescending(_)
SortedStrsDescending(S) ==
    IF S = {} THEN <<>>
    ELSE LET m == CHOOSE x \in S : \A y \in S \ {x} : StrLess(y, x)
         IN  <<m>> \o SortedStrsDescending(S \ {m})

\* sorted() of a set of distinct strings
RECURSIVE SortedStrs(_)
SortedStrs(S) ==
    IF S = {} THEN <<>>
    ELSE LET m == CHOOSE x \in S : \A y \in S \ {x} : StrLess(x, y)
         IN  <<m>> \o SortedStrs(S \ {m})

Range(s) == {s[i] : i \in 1..Len(s)}

\* ------------------------------------------------------------------ file selector

DOT_CSV == << ".", "c", "s", "v" >>
UPDATE_SUFFIX == << "_", "u", "p", "d", "a", "t", "e" >>

\* os.path.splitext on a basename: the extension starts at the last dot,
\* unless only dots precede it (then there is no extension).
LastDot(name) ==
    IF \E i \in 1..Len(name) : name[i] = "."
    THEN CHOOSE i \in 1..Len(name) :
            name[i] = "." /\ \A j \in (i + 1)..Len(name) : name[j] # "."
    ELSE 0

SplitextRoot(name) ==
    LET d == LastDot(name)
    IN  IF d = 0 \/ \A j \in 1..(d - 1) : name[j] = "."
        THEN name
        ELSE SubSeq(name, 1, d - 1)

\* list_csv_files: the regular files whose lower-cased name ends in ".csv",
\* sorted.  A folder is a set of directory entries [name, is_file]; every
\* path of one folder shares the folder prefix, so sorting the paths is
\* sorting the names.
list_csv_files(entries) ==
    SortedStrs({e.name : e \in {x \in entries :
                    x.is_file /\ EndsWith(Lower(x.name), DOT_CSV)}})

IsUpdateRoot(root) == EndsWith(Lower(root), UPDATE_SUFFIX)

\* root[:-7]
StripUpdate(root) == SubSeq(root, 1, Len(root) - 7)

\* prefer_updates == False branch
RECURSIVE ChooseBaseOnly(_)
ChooseBaseOnly(all_csv) ==
    IF all_csv = <<>> THEN <<>>
    ELSE IF IsUpdateRoot(SplitextRoot(Head(all_csv)))
         THEN ChooseBaseOnly(Tail(all_csv))
         ELSE <<Head(all_csv)>> \o ChooseBaseOnly(Tail(all_csv))

\* dict.setdefault / dict item assignment on a dict modelled as a function
DictSet(d, k, v) == [x \in DOMAIN d \cup {k} |-> IF x = k THEN v ELSE d[x]]
DictSetDefault(d, k, v) == IF k \in DOMAIN d THEN d ELSE DictSet(d, k, v)

EmptyDict == [x \in {} |-> <<>>]

\* mutation of BaseMapStep: the update file no longer replaces the base file
BaseMapStepNoOverwrite(base_map, path) ==
    LET root == SplitextRoot(path)
    IN  IF IsUpdateRoot(root)
        THEN DictSetDefault(base_map, StripUpdate(root), path)
        ELSE DictSetDefault(base_map, root, path)

\* one iteration of the prefer_updates == True loop
BaseMapStep(base_map, path) ==
    LET root == SplitextRoot(path)
    IN  IF IsUpdateRoot(root)
        THEN DictSet(base_map, StripUpdate(root), path)
        ELSE DictSetDefault(base_map, root, path)

RECURSIVE BuildBaseMap(_, _)
BuildBaseMap(base_map, all_csv) ==
    IF all_csv = <<>> THEN base_map
    ELSE BuildBaseMap(BaseMapStep(base_map, Head(all_csv)), Tail(all_csv))

\* mutation of choose_csv_files: the prefer_updates flag is ignored
choose_csv_files_always_prefer(entries, prefer) ==
    LET base_map == BuildBaseMap(EmptyDict, list_csv_files(entries))
        keys == SortedStrs(DOMAIN base_map)
    IN  [i \in 1..Len(keys) |-> base_map[keys[i]]]

choose_csv_files(entries, prefer) ==
    LET all_csv == list_csv_files(entries)
    IN  IF ~prefer THEN ChooseBaseOnly(all_csv)
        ELSE LET base_map == BuildBaseMap(EmptyDict, all_csv)
                 keys == SortedStrs(DOMAIN base_map)
             IN  [i \in 1..Len(keys) |-> base_map[keys[i]]]

\* ------------------------------------------------------------------ numbers

\* Python floats are binary floating point rounded to nearest, ties to even.
\* The model keeps that arithmetic at a reduced precision of MantissaBits
\* significant bits (binary64 has 53) over integer-valued quantities.
MantissaBits == 4

RECURSIVE Pow2(_)
Pow2(n) == IF n = 0 THEN 1 ELSE 2 * Pow2(n - 1)

\* the spacing of representable values around magnitude m
RECURSIVE Ulp(_, _)
Ulp(m, q) == IF m < q * Pow2(MantissaBits) THEN q ELSE Ulp(m, 2 * q)

RoundMag(m) ==
    LET q == Ulp(m, 1)
        lo == (m \div q) * q
        rem == m - lo
    IN  IF 2 * rem < q THEN lo
        ELSE IF 2 * rem > q THEN lo + q
        ELSE IF (lo \div q) % 2 = 0 THEN lo ELSE lo + q

\* round an exact value to the nearest representable float
FRound(n) == IF n < 0 THEN -RoundMag(-n) ELSE RoundMag(n)

\* float "+"
FAdd(a, b) == FRound(a + b)

Digits == << "0", "1", "2", "3", "4", "5", "6", "7", "8", "9" >>
IsDigit(c) == \E i \in 1..10 : Digits[i] = c
DigitVal(c) == (CHOOSE i \in 1..10 : Digits[i] = c) - 1

RECURSIVE DecimalValue(_, _)
DecimalValue(s, acc) ==
    IF s = <<>> THEN acc ELSE DecimalValue(Tail(s), 10 * acc + DigitVal(Head(s)))

\* float(cell) on a stripped cell: an optionally signed run of decimal digits
\* parses, any other text of the model's cells raises ValueError (ok = FALSE).
\* (The cells of the model never spell an exponent, a fraction, "nan" or "inf".)
ParseFloat(s) ==
    LET body == IF s # <<>> /\ Head(s) = "-" THEN Tail(s) ELSE s
    IN  IF body # <<>> /\ \A i \in 1..Len(body) : IsDigit(body[i])
        THEN [ok |-> TRUE,
              val |-> IF Head(s) = "-" THEN -FRound(DecimalValue(body, 0))
                      ELSE FRound(DecimalValue(body, 0))]
        ELSE [ok |-> FALSE, val |-> 0]

\* ------------------------------------------------------------------ schema detector

None == -1

HR == << "h", "r" >>

\* Column indices are Python's (0-based); rows are TLA+ sequences (1-based).
Cell(row, idx) == row[idx + 1]

\* mutation of IsHourName: the match is case-sensitive
IsHourNameCaseSensitive(name) == StartsWith(Strip(name), HR)

\* lines 79-80
IsHourName(name) == StartsWith(Lower(Strip(name)), HR)

RECURSIVE FindHourFrom(_, _)
FindHourFrom(header_row, idx) ==
    IF idx >= Len(header_row) THEN <<>>
    ELSE IF IsHourName(Cell(header_row, idx))
         THEN <<idx>> \o FindHourFrom(header_row, idx + 1)
         ELSE FindHourFrom(header_row, idx + 1)

_find_hour_indices(header_row) == FindHourFrom(header_row, 0)

RECURSIVE LocateFrom(_, _)
LocateFrom(rows, i) ==
    IF i >= Len(rows) THEN [header_index |-> -1, hour_cols |-> <<>>]
    ELSE LET hour_cols == _find_hour_indices(rows[i + 1])
         IN  IF hour_cols # <<>>
             THEN [header_index |-> i, hour_cols |-> hour_cols]
             ELSE LocateFrom(rows, i + 1)

\* mutation of _locate_header_and_hours: the last qualifying row wins
RECURSIVE LocateLastFrom(_, _)
LocateLastFrom(rows, i) ==
    IF i < 0 THEN [header_index |-> -1, hour_cols |-> <<>>]
    ELSE LET hour_cols == _find_hour_indices(rows[i + 1])
         IN  IF hour_cols # <<>>
             THEN [header_index |-> i, hour_cols |-> hour_cols]
             ELSE LocateLastFrom(rows, i - 1)

locate_last_header(rows) == LocateLastFrom(rows, Len(rows) - 1)

_locate_header_and_hours(rows) == LocateFrom(rows, 0)

KW_NAME == << "n", "a", "m", "e" >>
KW_LINE == << "l", "i", "n", "e" >>
KW_TIE == << "t", "i", "e" >>

HasKeyword(cell) ==
    LET text == Lower(Strip(cell))
    IN  Contains(text, KW_NAME) \/ Contains(text, KW_LINE) \/ Contains(text, KW_TIE)

RECURSIVE FindNameFrom(_, _)
FindNameFrom(header_row, idx) ==
    IF idx >= Len(header_row) THEN None
    ELSE IF Cell(header_row, idx) # <<>> /\ HasKeyword(Cell(header_row, idx))
         THEN idx
         ELSE FindNameFrom(header_row, idx + 1)

_find_name_col(header_row) ==
    IF header_row = <<>> THEN None ELSE FindNameFrom(header_row, 0)

\* ------------------------------------------------------------------ row aggregator

EXPORT_LC == << "e", "x", "p", "o", "r", "t" >>
KEY_EXPORT == << "E", "x", "p", "o", "r", "t" >>
KEY_IMPORT == << "I", "m", "p", "o", "r", "t" >>
IMPORT_LC == << "i", "m", "p", "o", "r", "t" >>
SUPPORTED_TYPES == {EXPORT_LC, IMPORT_LC}

\* the scan of lines 152-156: index of the first cell that is export/import
RECURSIVE ScanFlowFrom(_, _)
ScanFlowFrom(row, idx) ==
    IF idx >= Len(row) THEN None
    ELSE IF Lower(Strip(Cell(row, idx))) \in SUPPORTED_TYPES THEN idx
    ELSE ScanFlowFrom(row, idx + 1)

\* mutation of FlowColAfter: every row that holds an export/import cell moves
\* the flow column to it
FlowColAfterRescan(flow_col_index, row) ==
    IF ScanFlowFrom(row, 0) # None THEN ScanFlowFrom(row, 0) ELSE flow_col_index

\* lines 151-156: the flow column after looking at this row
FlowColAfter(flow_col_index, row) ==
    IF flow_col_index = None THEN ScanFlowFrom(row, 0) ELSE flow_col_index

\* lines 172-180: the name cell of a row
LineNameCell(row, flow_col_index, name_col_idx) ==
    IF name_col_idx # None /\ name_col_idx < Len(row)
    THEN Strip(Cell(row, name_col_idx))
    ELSE IF flow_col_index + 2 < Len(row)
         THEN Strip(Cell(row, flow_col_index + 2))
         ELSE <<>>

\* mutation of NextLineName: a blank name cell clears the current name
NextLineNameNoCarry(current_line_name, line_name_cell) == line_name_cell

\* lines 182-183
NextLineName(current_line_name, line_name_cell) ==
    IF line_name_cell # <<>> THEN line_name_cell ELSE current_line_name

\* mutation of SumHours: the first cell that does not parse ends the sum
RECURSIVE SumHoursStopAtBad(_, _, _)
SumHoursStopAtBad(row, hour_cols, total) ==
    IF hour_cols = <<>> THEN total
    ELSE LET idx == Head(hour_cols)
         IN  IF idx >= Len(row) THEN SumHoursStopAtBad(row, Tail(hour_cols), total)
             ELSE LET cell == Strip(Cell(row, idx))
                  IN  IF cell = <<>>
                      THEN SumHoursStopAtBad(row, Tail(hour_cols), total)
                      ELSE IF ParseFloat(cell).ok
                           THEN SumHoursStopAtBad(row, Tail(hour_cols),
                                                  FAdd(total, ParseFloat(cell).val))
                           ELSE total

\* lines 190-200: total_for_row, accumulated over hour_cols in order
RECURSIVE SumHours(_, _, _)
SumHours(row, hour_cols, total) ==
    IF hour_cols = <<>> THEN total
    ELSE LET idx == Head(hour_cols)
         IN  IF idx >= Len(row) THEN SumHours(row, Tail(hour_cols), total)
             ELSE LET cell == Strip(Cell(row, idx))
                  IN  IF cell = <<>> THEN SumHours(row, Tail(hour_cols), total)
                      ELSE IF ParseFloat(cell).ok
                           THEN SumHours(row, Tail(hour_cols),
                                         FAdd(total, ParseFloat(cell).val))
                           ELSE SumHours(row, Tail(hour_cols), total)

\* results[line][flow] += value on a defaultdict of defaultdict(float)
AddTo(results, line, flow, value) ==
    LET inner == IF line \in DOMAIN results THEN results[line] ELSE EmptyDict
        old == IF flow \in DOMAIN inner THEN inner[flow] ELSE 0
    IN  DictSet(results, line, DictSet(inner, flow, FAdd(old, value)))

\* One iteration of the loop of lines 146-202 on the loop state
\* st = [current_line_name, flow_col_index, results, total_for_row, summed].
\* summed tells whether the iteration reached line 202.

\* a "continue" after line 156: only the flow column may have been set
Skipped(st, fci) == [st EXCEPT !.flow_col_index = fci, !.summed = FALSE]

\* line 202
RowSummed(st, fci, flow_type, name, total) ==
    [current_line_name |-> name,
     flow_col_index |-> fci,
     results |-> AddTo(st.results, name, Capitalize(flow_type), total),
     total_for_row |-> total,
     summed |-> TRUE]

\* lines 185-202
RowWithName(st, row, hour_cols, fci, flow_type, name) ==
    IF name = <<>> THEN Skipped(st, fci)
    ELSE RowSummed(st, fci, flow_type, name, SumHours(row, hour_cols, 0))

\* mutation of RowWithFlowType: any non-blank flow cell is a flow type
RowWithFlowTypeAnyToken(st, row, hour_cols, name_col_idx, fci, flow_type) ==
    IF flow_type = <<>>
    THEN Skipped(st, fci)
    ELSE RowWithName(st, row, hour_cols, fci, flow_type,
                     NextLineName(st.current_line_name,
                                  LineNameCell(row, fci, name_col_idx)))

\* lines 162-183
RowWithFlowType(st, row, hour_cols, name_col_idx, fci, flow_type) ==
    IF flow_type = <<>> \/ Lower(flow_type) \notin SUPPORTED_TYPES
    THEN Skipped(st, fci)
    ELSE RowWithName(st, row, hour_cols, fci, flow_type,
                     NextLineName(st.current_line_name,
                                  LineNameCell(row, fci, name_col_idx)))

\* lines 158-162
RowWithFlowCol(st, row, hour_cols, name_col_idx, fci) ==
    IF fci = None \/ fci >= Len(row) THEN Skipped(st, fci)
    ELSE RowWithFlowType(st, row, hour_cols, name_col_idx, fci, Strip(Cell(row, fci)))

\* lines 147-156
RowStep(st, row, hour_cols, name_col_idx) ==
    IF row = <<>> THEN [st EXCEPT !.summed = FALSE]
    ELSE RowWithFlowCol(st, row, hour_cols, name_col_idx,
                        FlowColAfter(st.flow_col_index, row))

\* ------------------------------------------------------------------ yearly merger

\* the (line, flow type) items of a results dict
Items(res) == UNION {{<< l, f >> : f \in DOMAIN res[l]} : l \in DOMAIN res}

\* lines 216-218 for one input dict: every item is added into yearly (the
\* items of one dict have distinct keys, so their order is immaterial)
RECURSIVE AddItems(_, _, _)
AddItems(yearly, res, items) ==
    IF items = {} THEN yearly
    ELSE LET it == CHOOSE x \in items : TRUE
         IN  AddItems(AddTo(yearly, it[1], it[2], res[it[1]][it[2]]),
                      res, items \ {it})

RECURSIVE MergeFrom(_, _)
MergeFrom(yearly, list_of_res) ==
    IF list_of_res = <<>> THEN yearly
    ELSE MergeFrom(AddItems(yearly, Head(list_of_res), Items(Head(list_of_res))),
                   Tail(list_of_res))

\* mutation of merge_results: a later file's value replaces the earlier one
RECURSIVE MergeOverwriteFrom(_, _)
MergeOverwriteFrom(yearly, list_of_res) ==
    IF list_of_res = <<>> THEN yearly
    ELSE LET res == Head(list_of_res)
             lines == {l \in DOMAIN res : DOMAIN res[l] # {}}
         IN  MergeOverwriteFrom(
                 [l \in DOMAIN yearly \cup lines |->
                     IF l \in lines
                     THEN (IF l \in DOMAIN yearly THEN res[l] @@ yearly[l] ELSE res[l])
                     ELSE yearly[l]],
                 Tail(list_of_res))

merge_results_overwrite(list_of_res) == MergeOverwriteFrom(EmptyDict, list_of_res)

merge_results(list_of_res) == MergeFrom(EmptyDict, list_of_res)

\* ------------------------------------------------------------------ whole-file run

\* the loop of lines 146-202 from data row i (0-based) to the end
RECURSIVE RunRows(_, _, _, _, _)
RunRows(st, rows, i, hcols, ncol) ==
    IF i >= Len(rows) THEN st
    ELSE RunRows(RowStep(st, rows[i + 1], hcols, ncol), rows, i + 1, hcols, ncol)

\* lines 134-204, given what _locate_header_and_hours returned
FileWithHeader(rows, loc) ==
    IF loc.header_index = -1 \/ loc.hour_cols = <<>>
    THEN [raised |-> FALSE, results |-> EmptyDict]
    ELSE [raised |-> FALSE,
          results |->
             RunRows([current_line_name |-> <<>>,
                      flow_col_index |-> None,
                      results |-> EmptyDict,
                      total_for_row |-> 0,
                      summed |-> FALSE],
                     rows, loc.header_index + 1, loc.hour_cols,
                     _find_name_col(rows[loc.header_index + 1])).results]

\* process_csv_file on a file [rows, decodable]: raised tells that the
\* UnicodeDecodeError of the read left the function, results is the return value
process_csv_file(file) ==
    IF ~file.decodable THEN [raised |-> TRUE, results |-> EmptyDict]
    ELSE IF file.rows = <<>> THEN [raised |-> FALSE, results |-> EmptyDict]
    ELSE FileWithHeader(file.rows, _locate_header_and_hours(file.rows))

\* ------------------------------------------------------------------ formatter / writer

\* A text is a sequence of lines; a line is [kind, text, value].
Line(kind, text, value) == [kind |-> kind, text |-> text, value |-> value]

TotalOf(type_dict, flow) == IF flow \in DOMAIN type_dict THEN type_dict[flow] ELSE 0

RECURSIVE TieBlocks(_, _)
TieBlocks(yearly, names) ==
    IF names = <<>> THEN <<>>
    ELSE << Line("Line", Head(names), 0),
            Line("Export total", <<>>, TotalOf(yearly[Head(names)], KEY_EXPORT)),
            Line("Import total", <<>>, TotalOf(yearly[Head(names)], KEY_IMPORT)) >>
         \o TieBlocks(yearly, Tail(names))

format_results_as_text(yearly, folder_label) ==
    IF DOMAIN yearly = {}
    THEN << Line("Results for", folder_label, 0), Line("No data found", <<>>, 0) >>
    ELSE << Line("Results for", folder_label, 0) >>
            \o TieBlocks(yearly, SortedStrs(DOMAIN yearly))
            \o << Line("", <<>>, 0) >>

NoPath == << >>

\* what the file system does with os.makedirs(output_folder, exist_ok=True)
Creatable(output_folder) == output_folder # "locked"

\* the falsy values of the output_folder parameter: None and ""
Falsy(output_folder) == output_folder \in {"None", ""}

RECURSIVE CsvRows(_, _)
CsvRows(yearly, names) ==
    IF names = <<>> THEN <<>>
    ELSE << << Head(names), TotalOf(yearly[Head(names)], KEY_EXPORT),
               TotalOf(yearly[Head(names)], KEY_IMPORT) >> >>
         \o CsvRows(yearly, Tail(names))

\* write_yearly_results_csv on the output files disk (path -> rows)
write_yearly_results_csv(yearly_results, folder_label, output_dir, files_on_disk) ==
    IF DOMAIN yearly_results = {}
    THEN [raised |-> FALSE, out_path |-> NoPath, disk |-> files_on_disk]
    ELSE IF ~Creatable(output_dir)
         THEN [raised |-> TRUE, out_path |-> NoPath, disk |-> files_on_disk]
         ELSE [raised |-> FALSE,
               out_path |-> << output_dir, folder_label >>,
               disk |-> DictSet(files_on_disk, << output_dir, folder_label >>,
                                CsvRows(yearly_results,
                                        SortedStrs(DOMAIN yearly_results)))]

\* ------------------------------------------------------------------ folder runs

BoolInt(b) == IF b THEN 1 ELSE 0

\* lines 293-301: the files in order; raised when one of them cannot be read
RECURSIVE ProcessFiles(_, _, _)
RECURSIVE AfterFile(_, _, _, _)
AfterFile(files, csv_files, acc, res) ==
    IF res.raised THEN [acc EXCEPT !.raised = TRUE]
    ELSE ProcessFiles(files, Tail(csv_files),
            [raised |-> FALSE,
             monthly_results |-> Append(acc.monthly_results, res.results),
             log_lines |-> IF DOMAIN res.results = {}
                           THEN Append(acc.log_lines,
                                       Line("! No header or rows in", Head(csv_files), 0))
                           ELSE acc.log_lines])

ProcessFiles(files, csv_files, acc) ==
    IF csv_files = <<>> THEN acc
    ELSE AfterFile(files, csv_files, acc, process_csv_file(files[Head(csv_files)]))

\* an exception left process_single_subfolder: nothing is returned
Failed(files_on_disk) ==
    [raised |-> TRUE, log |-> <<>>, yearly |-> EmptyDict, out_path |-> NoPath,
     disk |-> files_on_disk]

\* lines 285-291
LogHead(sub, prefer, csv_files) ==
    << Line("Processing subfolder", sub.name, 0),
       Line("Prefer updates", <<>>, BoolInt(prefer)),
       Line("Using n .csv files", <<>>, Len(csv_files)) >>
    \o [i \in 1..Len(csv_files) |-> Line("-", csv_files[i], 0)]

\* lines 312-318
AfterWrite(sub, is_dry, files_on_disk, report, yearly_results, wrote) ==
    IF wrote.raised THEN Failed(files_on_disk)
    ELSE [raised |-> FALSE,
          log |-> report
                  \o (IF wrote.out_path # NoPath
                      THEN << Line("Saved yearly totals to", wrote.out_path[2], 0) >>
                      ELSE <<>>)
                  \o (IF is_dry
                      THEN << Line("Dry run: no files were written", <<>>, 0) >>
                      ELSE <<>>),
          yearly |-> yearly_results,
          out_path |-> wrote.out_path,
          disk |-> wrote.disk]

\* lines 304-311
WithYearly(sub, is_dry, output_dir, files_on_disk, do_write, log_lines, yearly_results) ==
    AfterWrite(sub, is_dry, files_on_disk,
               log_lines \o << Line("", <<>>, 0) >>
                   \o format_results_as_text(yearly_results, sub.name),
               yearly_results,
               IF do_write
               THEN write_yearly_results_csv(yearly_results, sub.name, output_dir,
                                             files_on_disk)
               ELSE [raised |-> FALSE, out_path |-> NoPath, disk |-> files_on_disk])

\* line 303
AfterFiles(sub, is_dry, output_dir, files_on_disk, do_write, done) ==
    IF done.raised THEN Failed(files_on_disk)
    ELSE WithYearly(sub, is_dry, output_dir, files_on_disk, do_write, done.log_lines,
                    merge_results(done.monthly_results))

\* lines 285-301
WithFiles(sub, is_dry, prefer, output_dir, files_on_disk, do_write, csv_files) ==
    AfterFiles(sub, is_dry, output_dir, files_on_disk, do_write,
               ProcessFiles(sub.files, csv_files,
                            [raised |-> FALSE, monthly_results |-> <<>>,
                             log_lines |-> LogHead(sub, prefer, csv_files)]))

\* the body of process_single_subfolder with the write guard as a parameter;
\* scanning a subfolder that is no longer there raises
SingleSubfolder(sub, is_dry, prefer, output_dir, files_on_disk, do_write) ==
    IF ~sub.present THEN Failed(files_on_disk)
    ELSE WithFiles(sub, is_dry, prefer, output_dir, files_on_disk, do_write,
                   choose_csv_files({[name |-> n, is_file |-> TRUE] :
                                        n \in DOMAIN sub.files}, prefer))

\* mutation of process_single_subfolder: the write guard ignores dry_run
process_single_subfolder_writes_in_dry_run(sub, is_dry, prefer, output_dir, files_on_disk) ==
    SingleSubfolder(sub, is_dry, prefer, output_dir, files_on_disk, ~Falsy(output_dir))

\* process_single_subfolder: line 308 guards the write
process_single_subfolder(sub, is_dry, prefer, output_dir, files_on_disk) ==
    SingleSubfolder(sub, is_dry, prefer, output_dir, files_on_disk,
                    (~is_dry) /\ ~Falsy(output_dir))

\* ------------------------------------------------------------------ state

VARIABLES
    \* choose_csv_files
    entries,            \* the directory entries of the folder
    prefer_updates,     \* the flag
    chosen,             \* the returned list
    sel_pc,             \* "idle" | "call" | "returned"
    \* process_csv_file
    all_rows,           \* the rows csv.reader yields for the file
    decodable,          \* whether the bytes decode as utf-8-sig
    pc,                 \* "idle" | "open" | "detect" | "rows" | "returned" | "raised"
    header_index,
    hour_cols,
    name_col_idx,
    row_pos,            \* 0-based index in all_rows of the next data row
    current_line_name,
    flow_col_index,
    results,
    total_for_row,
    summed,             \* the last iteration reached line 202
    \* merge_results
    list_of_results,    \* the argument
    yearly,             \* the returned dict
    merge_pc,           \* "idle" | "call" | "returned"
    \* process_all_subfolders
    main_folder,        \* the subfolders on disk: records [name, present, files]
    dry_run,
    output_folder,      \* "None" | "" | a directory
    run_pc,             \* "idle" | "start" | "loop" | "returned" | "raised"
    subfolders,         \* what find_subfolders returned
    sub_pos,            \* how many subfolders the loop has finished
    all_logs,
    all_outputs,
    log_text,           \* what the last process_single_subfolder call returned
    sub_yearly,
    out_path,
    disk                \* the output files written so far: path -> rows

selVars == << entries, prefer_updates, chosen, sel_pc >>
fileVars == << all_rows, decodable, pc, header_index, hour_cols, name_col_idx,
               row_pos, current_line_name, flow_col_index, results,
               total_for_row, summed >>
mergeVars == << list_of_results, yearly, merge_pc >>
runVars == << main_folder, dry_run, output_folder, run_pc, subfolders, sub_pos,
             all_logs, all_outputs, log_text, sub_yearly, out_path, disk >>
vars == << selVars, fileVars, mergeVars, runVars >>

SelIdle ==
    /\ entries = {}
    /\ prefer_updates = FALSE
    /\ chosen = <<>>
    /\ sel_pc = "idle"

FileIdle ==
    /\ all_rows = <<>>
    /\ decodable = TRUE
    /\ pc = "idle"
    /\ header_index = -1
    /\ hour_cols = <<>>
    /\ name_col_idx = None
    /\ row_pos = 0
    /\ current_line_name = <<>>
    /\ flow_col_index = None
    /\ results = EmptyDict
    /\ total_for_row = 0
    /\ summed = FALSE

MergeIdle ==
    /\ list_of_results = <<>>
    /\ yearly = EmptyDict
    /\ merge_pc = "idle"

RunIdle ==
    /\ main_folder = {}
    /\ dry_run = TRUE
    /\ output_folder = "None"
    /\ run_pc = "idle"
    /\ subfolders = <<>>
    /\ sub_pos = 0
    /\ all_logs = <<>>
    /\ all_outputs = <<>>
    /\ log_text = <<>>
    /\ sub_yearly = EmptyDict
    /\ out_path = NoPath
    /\ disk = EmptyDict

\* ------------------------------------------------------------------ choose_csv_files as a step

JAN == << "j", "a", "n" >>
FEB == << "f", "e", "b" >>
DOT_CSV_UC == << ".", "C", "S", "V" >>
UPDATE_UC == << "_", "U", "P", "D", "A", "T", "E" >>

jan_csv == JAN \o DOT_CSV
jan_update_csv == JAN \o UPDATE_SUFFIX \o DOT_CSV
feb_csv == FEB \o DOT_CSV
feb_update_csv == FEB \o UPDATE_SUFFIX \o DOT_CSV

File(name) == [name |-> name, is_file |-> TRUE]
Dir(name) == [name |-> name, is_file |-> FALSE]

\* the directory entries a folder of the model is made of
EntryPool ==
    { File(jan_csv), File(jan_update_csv), File(feb_csv), File(feb_update_csv),
      File(JAN \o UPDATE_UC \o DOT_CSV_UC),
      File(<< "J" >> \o Tail(JAN) \o DOT_CSV),
      File(JAN \o DOT_CSV_UC),
      File(UPDATE_SUFFIX \o DOT_CSV),
      File(DOT_CSV),
      File(FEB \o << ".", "t", "x", "t" >>),
      Dir(<< "d" >> \o DOT_CSV) }

MaxFiles == 3

Folders == {f \in SUBSET EntryPool : Cardinality(f) <= MaxFiles}

InitSelect ==
    /\ entries \in Folders
    /\ prefer_updates \in BOOLEAN
    /\ chosen = <<>>
    /\ sel_pc = "call"
    /\ FileIdle /\ MergeIdle /\ RunIdle

ChooseCsvFiles ==
    /\ sel_pc = "call"
    /\ chosen' = choose_csv_files(entries, prefer_updates)
    /\ sel_pc' = "returned"
    /\ UNCHANGED << entries, prefer_updates, fileVars, mergeVars, runVars >>

NextSelect == ChooseCsvFiles

SpecSelect == InitSelect /\ [][NextSelect]_vars

\* ------------------------------------------------------------------ process_csv_file as steps

\* cell texts
T_TYPE == << "T", "y", "p", "e" >>
T_DATE == << "D", "a", "t", "e" >>
T_NOTE == << "N", "o", "t", "e" >>
T_NAME == << "N", "a", "m", "e" >>
T_ID == << "I", "d" >>
T_HR01 == << "H", "r", "0", "1" >>
T_HR02_PADDED == << " ", "H", "R", "0", "2", " " >>
T_EXPORT == << "E", "x", "p", "o", "r", "t" >>
T_EXPORT_LC_PADDED == << " ", "e", "x", "p", "o", "r", "t" >>
T_IMPORT_UC == << "I", "M", "P", "O", "R", "T" >>
T_IMPORT == << "I", "m", "p", "o", "r", "t" >>
T_NET == << "N", "e", "t" >>
T_TIEA == << "T", "i", "e", "A" >>
T_TIEB == << "T", "i", "e", "B" >>
T_ZED == << "Z", "e", "d" >>
T_NA == << "N", "/", "A" >>
T_D == << "d" >>
T_REPORT == << "R", "e", "p", "o", "r", "t" >>
T_5 == << "5" >>
T_7 == << "7" >>
T_10_PADDED == << " ", "1", "0", " " >>
T_3 == << "3" >>
T_1 == << "1" >>
T_BLANK == << >>

\* header with a name column (index 3) and hour columns 4, 5
HDR_NAMED == << T_TYPE, T_DATE, T_NOTE, T_NAME, T_HR01, T_HR02_PADDED >>
\* header without a name column: the name is looked up two right of the flow cell
HDR_PLAIN == << T_TYPE, T_DATE, T_ID, T_ID, T_HR01, T_HR02_PADDED >>

ROW_A == << T_EXPORT, T_D, T_TIEB, T_TIEA, T_5, T_5 >>
ROW_CARRY == << T_EXPORT_LC_PADDED, T_D, T_BLANK, T_BLANK, T_10_PADDED, T_NA >>
ROW_IMPORT == << T_IMPORT_UC, T_D, T_TIEB, T_TIEB, T_3, T_BLANK >>
ROW_NET == << T_NET, T_D, T_TIEB, T_TIEB, T_1, T_1 >>
ROW_EMPTY == << >>
ROW_SHORT == << T_IMPORT, T_D, T_ZED >>
ROW_HDRLIKE == << T_EXPORT, T_D, T_TIEA, T_TIEA, T_HR01, T_7 >>
ROW_SHIFTED == << T_D, T_EXPORT, T_D, T_TIEA, T_1, T_1 >>
ROW_JUNK == << T_REPORT >>

DataPool == { ROW_A, ROW_CARRY, ROW_IMPORT, ROW_NET, ROW_EMPTY, ROW_SHORT,
              ROW_HDRLIKE, ROW_SHIFTED }

MaxRows == 3

RECURSIVE SeqsUpTo(_, _)
SeqsUpTo(S, n) ==
    IF n = 0 THEN { <<>> }
    ELSE LET shorter == SeqsUpTo(S, n - 1)
         IN  shorter \cup {Append(q, x) : q \in shorter, x \in S}

\* the files of the model: no header, one of the two headers, or a junk row
\* and a header, then up to MaxRows data rows
Files ==
    { top \o body : top \in { <<>>, << HDR_NAMED >>, << HDR_PLAIN >>,
                              << ROW_JUNK, HDR_NAMED >> },
                    body \in SeqsUpTo(DataPool, MaxRows) }

InitFile ==
    /\ all_rows \in Files
    /\ decodable \in BOOLEAN
    /\ pc = "open"
    /\ header_index = -1
    /\ hour_cols = <<>>
    /\ name_col_idx = None
    /\ row_pos = 0
    /\ current_line_name = <<>>
    /\ flow_col_index = None
    /\ results = EmptyDict
    /\ total_for_row = 0
    /\ summed = FALSE
    /\ SelIdle /\ MergeIdle /\ RunIdle

loopVars == << current_line_name, flow_col_index, results, total_for_row, summed >>

\* lines 126-131: open and read the file; undecodable bytes raise
\* UnicodeDecodeError out of process_csv_file, no rows returns {}
OpenFile ==
    /\ pc = "open"
    /\ pc' = IF ~decodable THEN "raised"
             ELSE IF all_rows = <<>> THEN "returned" ELSE "detect"
    /\ UNCHANGED << all_rows, decodable, header_index, hour_cols, name_col_idx,
                    row_pos, loopVars, selVars, mergeVars, runVars >>

\* lines 133-144: locate the header, the hour columns and the name column
Detect ==
    /\ pc = "detect"
    /\ \E loc \in {_locate_header_and_hours(all_rows)} :
           /\ header_index' = loc.header_index
           /\ hour_cols' = loc.hour_cols
           /\ IF loc.header_index = -1 \/ loc.hour_cols = <<>>
              THEN /\ pc' = "returned"
                   /\ UNCHANGED << name_col_idx, row_pos >>
              ELSE /\ pc' = "rows"
                   /\ name_col_idx' = _find_name_col(all_rows[loc.header_index + 1])
                   /\ row_pos' = loc.header_index + 1
    /\ UNCHANGED << all_rows, decodable, loopVars, selVars, mergeVars, runVars >>

\* lines 146-202: one iteration of the loop over data_rows
ProcessRow ==
    /\ pc = "rows"
    /\ row_pos < Len(all_rows)
    /\ \E st \in {RowStep([current_line_name |-> current_line_name,
                           flow_col_index |-> flow_col_index,
                           results |-> results,
                           total_for_row |-> total_for_row,
                           summed |-> summed],
                          all_rows[row_pos + 1], hour_cols, name_col_idx)} :
           /\ current_line_name' = st.current_line_name
           /\ flow_col_index' = st.flow_col_index
           /\ results' = st.results
           /\ total_for_row' = st.total_for_row
           /\ summed' = st.summed
    /\ row_pos' = row_pos + 1
    /\ UNCHANGED << all_rows, decodable, pc, header_index, hour_cols,
                    name_col_idx, selVars, mergeVars, runVars >>

\* line 204
ReturnResults ==
    /\ pc = "rows"
    /\ row_pos >= Len(all_rows)
    /\ pc' = "returned"
    /\ UNCHANGED << all_rows, decodable, header_index, hour_cols, name_col_idx,
                    row_pos, loopVars, selVars, mergeVars, runVars >>

NextFile == OpenFile \/ Detect \/ ProcessRow \/ ReturnResults

SpecFile == InitFile /\ [][NextFile]_vars

\* ------------------------------------------------------------------ files with the header at row 3

T_HRS_PADDED == << " ", "H", "r", "s", " " >>
T_THREE == << "T", "h", "r", "e", "e" >>

HourName(i) == << "H", "r", Digits[(i \div 10) + 1], Digits[(i % 10) + 1] >>

\* five leading columns, then Hr01..Hr24 at indices 5..28
HDR_WIDE == << T_TYPE, T_DATE, T_NOTE, T_NAME, T_ID >> \o [i \in 1..24 |-> HourName(i)]

ROW_WIDE ==
    << T_EXPORT, T_D, T_BLANK, T_TIEA, T_D >>
        \o [i \in 1..24 |-> IF i \in {1, 24} THEN T_3 ELSE T_BLANK]

JunkPool ==
    { << >>,
      << T_REPORT >>,
      << T_DATE, T_BLANK, T_7 >>,
      << T_NOTE, T_HRS_PADDED >>,
      << T_THREE >>,
      << T_HR01 >> }

WideFiles ==
    { << j0, j1, j2, HDR_WIDE >> \o body :
          j0 \in JunkPool, j1 \in JunkPool, j2 \in JunkPool,
          body \in { << >>, << ROW_WIDE >> } }

InitDetect ==
    /\ all_rows \in WideFiles
    /\ decodable = TRUE
    /\ pc = "open"
    /\ header_index = -1
    /\ hour_cols = <<>>
    /\ name_col_idx = None
    /\ row_pos = 0
    /\ current_line_name = <<>>
    /\ flow_col_index = None
    /\ results = EmptyDict
    /\ total_for_row = 0
    /\ summed = FALSE
    /\ SelIdle /\ MergeIdle /\ RunIdle

SpecDetect == InitDetect /\ [][NextFile]_vars

\* ------------------------------------------------------------------ merge_results as a step

T_MINUS_A == << "-", "A" >>

\* per-file totals the merge is fed with
ResultsPool ==
    { EmptyDict,
      (T_MINUS_A :> (KEY_EXPORT :> 10)),
      (T_MINUS_A :> ((KEY_EXPORT :> 5) @@ (KEY_IMPORT :> 2))),
      (T_MINUS_A :> (KEY_EXPORT :> 16)),
      (T_MINUS_A :> (KEY_EXPORT :> 1)),
      (T_TIEB :> (KEY_IMPORT :> 3)),
      (T_MINUS_A :> EmptyDict) }

MaxMaps == 3

InitMerge ==
    /\ list_of_results \in SeqsUpTo(ResultsPool, MaxMaps)
    /\ yearly = EmptyDict
    /\ merge_pc = "call"
    /\ SelIdle /\ FileIdle /\ RunIdle

MergeResults ==
    /\ merge_pc = "call"
    /\ yearly' = merge_results(list_of_results)
    /\ merge_pc' = "returned"
    /\ UNCHANGED << list_of_results, selVars, fileVars, runVars >>

NextMerge == MergeResults

SpecMerge == InitMerge /\ [][NextMerge]_vars

\* ------------------------------------------------------------------ process_all_subfolders as steps

F_A == [rows |-> << HDR_NAMED, ROW_A >>, decodable |-> TRUE]
F_A_UPDATE == [rows |-> << HDR_NAMED, ROW_A, ROW_CARRY >>, decodable |-> TRUE]
F_B == [rows |-> << HDR_NAMED, ROW_IMPORT >>, decodable |-> TRUE]
F_UNDECODABLE == [rows |-> << HDR_NAMED, ROW_A >>, decodable |-> FALSE]
F_NO_HEADER == [rows |-> << ROW_JUNK >>, decodable |-> TRUE]

NoFiles == [n \in {} |-> F_A]

\* what a subfolder can hold: its files, and whether it is still there when
\* it is scanned
SubfolderPool ==
    { [present |-> TRUE,
       files |-> (jan_csv :> F_A) @@ (jan_update_csv :> F_A_UPDATE) @@ (feb_csv :> F_B)],
      [present |-> TRUE, files |-> (feb_csv :> F_B)],
      [present |-> TRUE, files |-> (feb_csv :> F_UNDECODABLE) @@ (jan_csv :> F_A)],
      [present |-> TRUE, files |-> (jan_csv :> F_NO_HEADER)],
      [present |-> TRUE, files |-> NoFiles],
      [present |-> FALSE, files |-> NoFiles] }

SubfolderNames == << << "A" >>, << "B" >>, << "C" >>, << "D" >> >>

MaxSubfolders == 2

Named(name, content) ==
    [name |-> name, present |-> content.present, files |-> content.files]

MainFolders ==
    UNION { { {Named(SubfolderNames[i], pick[i]) : i \in 1..n} :
                pick \in [1..n -> SubfolderPool] } : n \in 0..MaxSubfolders }

Init ==
    /\ main_folder \in MainFolders
    /\ dry_run \in BOOLEAN
    /\ prefer_updates \in BOOLEAN
    /\ output_folder \in {"None", "", "out", "locked"}
    /\ run_pc = "start"
    /\ subfolders = <<>>
    /\ sub_pos = 0
    /\ all_logs = <<>>
    /\ all_outputs = <<>>
    /\ log_text = <<>>
    /\ sub_yearly = EmptyDict
    /\ out_path = NoPath
    /\ disk = EmptyDict
    /\ entries = {} /\ chosen = <<>> /\ sel_pc = "idle"
    /\ FileIdle /\ MergeIdle

\* find_subfolders: the immediate subfolders, sorted
find_subfolders(folder) == SortedStrs({sub.name : sub \in folder})

SubNamed(name) == CHOOSE sub \in main_folder : sub.name = name

\* lines 332-342
FindSubfolders ==
    /\ run_pc = "start"
    /\ subfolders' = find_subfolders(main_folder)
    /\ IF subfolders' = <<>>
       THEN /\ run_pc' = "returned"
            /\ all_logs' = << << Line("No subfolders found inside", <<>>, 0) >> >>
       ELSE /\ run_pc' = "loop"
            /\ all_logs' = << << Line("Main folder", <<>>, 0) >>,
                              << Line("Found n subfolders", <<>>, Len(subfolders')) >>,
                              << Line("Prefer updates", <<>>, BoolInt(prefer_updates)) >>,
                              << Line("", <<>>, 0) >> >>
    /\ UNCHANGED << main_folder, dry_run, output_folder, sub_pos, all_outputs,
                    log_text, sub_yearly, out_path, disk,
                    selVars, fileVars, mergeVars >>

\* lines 344-354: one iteration; an exception of process_single_subfolder
\* leaves process_all_subfolders
ProcessSubfolder ==
    /\ run_pc = "loop"
    /\ sub_pos < Len(subfolders)
    /\ \E r \in {process_single_subfolder(SubNamed(subfolders[sub_pos + 1]), dry_run,
                                          prefer_updates, output_folder, disk)} :
           IF r.raised
           THEN /\ run_pc' = "raised"
                /\ UNCHANGED << sub_pos, all_logs, all_outputs, log_text,
                                sub_yearly, out_path, disk >>
           ELSE /\ run_pc' = "loop"
                /\ sub_pos' = sub_pos + 1
                /\ log_text' = r.log
                /\ sub_yearly' = r.yearly
                /\ out_path' = r.out_path
                /\ disk' = r.disk
                /\ all_logs' = all_logs \o << r.log, << Line("------", <<>>, 0) >> >>
                /\ all_outputs' = IF r.out_path # NoPath
                                  THEN Append(all_outputs, r.out_path)
                                  ELSE all_outputs
    /\ UNCHANGED << main_folder, dry_run, output_folder, subfolders,
                    selVars, fileVars, mergeVars >>

\* lines 356-361
FinishRun ==
    /\ run_pc = "loop"
    /\ sub_pos >= Len(subfolders)
    /\ run_pc' = "returned"
    /\ all_logs' = Append(all_logs,
                          IF dry_run
                          THEN << Line("Dry run complete for ALL subfolders", <<>>, 0) >>
                          ELSE << Line("Processing complete for ALL subfolders", <<>>, 0) >>)
    /\ UNCHANGED << main_folder, dry_run, output_folder, subfolders, sub_pos,
                    all_outputs, log_text, sub_yearly, out_path, disk,
                    selVars, fileVars, mergeVars >>

Next == FindSubfolders \/ ProcessSubfolder \/ FinishRun

Spec == Init /\ [][Next]_vars

\* ------------------------------------------------------------------ claims: file selector

\* what the claims call the .csv files of the folder, a file's stem, an
\* update file and a base key
CsvNames == {e.name : e \in {x \in entries :
                x.is_file /\ EndsWith(Lower(x.name), DOT_CSV)}}
IsUpdateFile(name) == EndsWith(Lower(SplitextRoot(name)), UPDATE_SUFFIX)
BaseKey(name) ==
    IF IsUpdateFile(name)
    THEN SubSeq(SplitextRoot(name), 1, Len(SplitextRoot(name)) - Len(UPDATE_SUFFIX))
    ELSE SplitextRoot(name)

\* C1: with prefer_updates = true every base key of the folder has exactly one
\* selected file, which is an "_update" file whenever the key has one and a
\* base file otherwise; nothing else is selected.
C1_OnePerKeyUpdateWins ==
    (sel_pc = "returned" /\ prefer_updates) =>
        /\ \A i \in DOMAIN chosen : chosen[i] \in CsvNames
        /\ \A k \in {BaseKey(n) : n \in CsvNames} :
              /\ Cardinality({i \in DOMAIN chosen : BaseKey(chosen[i]) = k}) = 1
              /\ \A i \in DOMAIN chosen :
                    BaseKey(chosen[i]) = k =>
                        (IsUpdateFile(chosen[i]) <=>
                            \E n \in CsvNames : BaseKey(n) = k /\ IsUpdateFile(n))

\* C1 witness: a folder with a base/update pair and an update-only key; both
\* update files are returned and the base file is not.
C1_Witness ==
    /\ sel_pc = "returned" /\ prefer_updates
    /\ entries = {File(jan_csv), File(jan_update_csv), File(feb_update_csv)}
    /\ Range(chosen) = {jan_update_csv, feb_update_csv}

\* C2: with prefer_updates = false the result is exactly the .csv files whose
\* stem does not end in "_update" (case-insensitive), each once.
C2_BaseFilesOnly ==
    (sel_pc = "returned" /\ ~prefer_updates) =>
        /\ Range(chosen) = {n \in CsvNames : ~IsUpdateFile(n)}
        /\ Len(chosen) = Cardinality({n \in CsvNames : ~IsUpdateFile(n)})

\* C2 witness: an update file without base counterpart is excluded, the base
\* file of another key is kept.
C2_Witness ==
    /\ sel_pc = "returned" /\ ~prefer_updates
    /\ entries = {File(jan_csv), File(feb_update_csv)}
    /\ chosen = << jan_csv >>

JanFebFolder == {File(jan_csv), File(jan_update_csv), File(feb_csv)}

\* C3 as stated: for the folder {jan.csv, jan_update.csv, feb.csv} the result
\* is [jan_update.csv, feb.csv] with prefer_updates and [jan.csv, feb.csv]
\* without.
C3_AsStated ==
    (sel_pc = "returned" /\ entries = JanFebFolder) =>
        chosen = IF prefer_updates THEN << jan_update_csv, feb_csv >>
                 ELSE << jan_csv, feb_csv >>

\* C3 amended: for that folder the result is in sorted order,
\* [feb.csv, jan_update.csv] with prefer_updates and [feb.csv, jan.csv]
\* without.
C3_SortedResult ==
    (sel_pc = "returned" /\ entries = JanFebFolder) =>
        chosen = IF prefer_updates THEN << feb_csv, jan_update_csv >>
                 ELSE << feb_csv, jan_csv >>

\* C3 witness: the call on that folder has returned two files, without
\* prefer_updates.
C3_Witness ==
    /\ sel_pc = "returned" /\ entries = JanFebFolder /\ ~prefer_updates
    /\ Len(chosen) = 2

\* ------------------------------------------------------------------ claims: schema detector

\* what the claims call a cell that, trimmed and lowercased, starts with "hr"
StartsHr(cell) ==
    LET t == Lower(Strip(cell))
    IN  Len(t) >= 2 /\ t[1] = "h" /\ t[2] = "r"

\* row i (0-based) has at least one such cell
Qualifies(i) == \E j \in 1..Len(all_rows[i + 1]) : StartsHr(all_rows[i + 1][j])

\* the 0-based positions of such cells in row i
HrCells(i) == {j - 1 : j \in {k \in 1..Len(all_rows[i + 1]) : StartsHr(all_rows[i + 1][k])}}

Ascending(q) == \A a, b \in 1..Len(q) : a < b => q[a] < q[b]

Detected == pc \in {"rows", "returned"} /\ all_rows # <<>>

HeaderAtRow3 == Len(all_rows) >= 4 /\ all_rows[4] = HDR_WIDE

\* C4 as stated: with the header at row 3 and hour columns 5..28, detection
\* returns 3 and exactly 5..28 whatever rows 0..2 contain.
C4_AsStated ==
    (Detected /\ HeaderAtRow3) =>
        /\ header_index = 3
        /\ hour_cols = [k \in 1..24 |-> k + 4]

\* C4 amended: the same, provided no cell of rows 0..2 starts with "hr" once
\* trimmed and lowercased.
C4_HeaderAtRow3 ==
    (Detected /\ HeaderAtRow3 /\ \A i \in 0..2 : ~Qualifies(i)) =>
        /\ header_index = 3
        /\ hour_cols = [k \in 1..24 |-> k + 4]

\* C4 witness: three junk rows, one of them holding "Three" (an "hr" inside
\* the cell, not at its start), and the header found at row 3.
C4_Witness ==
    /\ Detected /\ HeaderAtRow3
    /\ all_rows[1] = << T_THREE >> /\ all_rows[2] = << T_REPORT >>
    /\ all_rows[3] = << T_DATE, T_BLANK, T_7 >>
    /\ header_index = 3 /\ Len(hour_cols) = 24
    /\ pc = "returned" /\ row_pos = 5

\* C5: detection picks the lowest-index row with a cell that starts with "hr"
\* (trimmed, lowercased); the hour columns are all such cells of that row in
\* ascending order; the rows after it, header-like or not, are the data rows
\* the loop walks; with no such row the result is (-1, empty) and
\* process_csv_file returns empty totals; a decodable file never raises.
C5_FirstQualifyingRow ==
    /\ (decodable => pc # "raised")
    /\ Detected =>
        IF \E i \in 0..(Len(all_rows) - 1) : Qualifies(i)
        THEN /\ header_index \in 0..(Len(all_rows) - 1)
             /\ Qualifies(header_index)
             /\ \A i \in 0..(header_index - 1) : ~Qualifies(i)
             /\ Range(hour_cols) = HrCells(header_index)
             /\ Ascending(hour_cols)
             /\ row_pos \in (header_index + 1)..Len(all_rows)
             /\ (pc = "returned" => row_pos = Len(all_rows))
        ELSE /\ header_index = -1
             /\ hour_cols = <<>>
             /\ pc = "returned"
             /\ results = EmptyDict

\* C5 witness: a header-like row after the header has been summed as a data
\* row (its "Hr01" cell counts 0, its 7 is added).
C5_Witness ==
    /\ pc = "returned"
    /\ all_rows = << HDR_NAMED, ROW_HDRLIKE >>
    /\ header_index = 0 /\ hour_cols = << 4, 5 >>
    /\ summed /\ results = (T_TIEA :> (T_EXPORT :> 7))

\* ------------------------------------------------------------------ claims: row aggregator

\* the row the loop is about to process, and the flow column once it has
\* looked at that row
ThisRow == all_rows[row_pos + 1]
RowStepTaken == pc = "rows" /\ row_pos < Len(all_rows) /\ row_pos' = row_pos + 1

\* row r is an Export/Import row for flow column fc
IsFlowRow(r, fc) ==
    /\ fc # None /\ fc < Len(r)
    /\ Lower(Strip(r[fc + 1])) \in {EXPORT_LC, IMPORT_LC}

\* the name cell a row offers: the cell of the name column when the header
\* has one and the row reaches it, otherwise the cell two right of the flow
\* column when the row reaches that; blank when there is none
OfferedName(r, fc) ==
    IF name_col_idx # None /\ name_col_idx < Len(r) THEN Strip(r[name_col_idx + 1])
    ELSE IF fc + 2 < Len(r) THEN Strip(r[fc + 3])
    ELSE <<>>

\* the data rows before the current one (1-based positions in all_rows)
\* that are Export/Import rows offering a non-blank name
NamedBefore(fc) ==
    {k \in (header_index + 2)..row_pos :
        IsFlowRow(all_rows[k], fc) /\ OfferedName(all_rows[k], fc) # <<>>}

Max(S) == CHOOSE x \in S : \A y \in S : y <= x

ValueAt(res, line, flow) ==
    IF line \in DOMAIN res /\ flow \in DOMAIN res[line] THEN res[line][flow] ELSE 0

\* res2 is res1 with amount added under (line, flow) and nothing else changed
AddedUnder(res1, res2, line, flow, amount) ==
    /\ line \in DOMAIN res2 /\ flow \in DOMAIN res2[line]
    /\ res2[line][flow] = FRound(ValueAt(res1, line, flow) + amount)
    /\ \A l \in DOMAIN res1 \cup DOMAIN res2 :
          \A f \in {T_EXPORT, T_IMPORT} :
              (l # line \/ f # flow) =>
                  /\ ValueAt(res2, l, f) = ValueAt(res1, l, f)
                  /\ (l \in DOMAIN res2 /\ f \in DOMAIN res2[l])
                        <=> (l \in DOMAIN res1 /\ f \in DOMAIN res1[l])

FlowKey(r, fc) ==
    IF Lower(Strip(r[fc + 1])) = EXPORT_LC THEN T_EXPORT ELSE T_IMPORT

\* C6: an Export/Import row that offers no non-blank name cell, coming after
\* an Export/Import row of the file that offered one, is not skipped: its
\* hourly sum is added under the name of the most recent such row.
C6_CarryForward ==
    [][ (/\ RowStepTaken
         /\ IsFlowRow(ThisRow, flow_col_index')
         /\ OfferedName(ThisRow, flow_col_index') = <<>>
         /\ NamedBefore(flow_col_index') # {})
        => LET last == all_rows[Max(NamedBefore(flow_col_index'))]
               name == OfferedName(last, flow_col_index')
           IN  /\ summed'
               /\ current_line_name' = name
               /\ AddedUnder(results, results', name,
                             FlowKey(ThisRow, flow_col_index'), total_for_row')
      ]_vars

\* C6 witness: the row with a blank name cell right after the row naming TieA
\* has been added under TieA (5 + 5 from the first row, 10 from the second).
C6_Witness ==
    /\ pc = "rows" /\ row_pos = 3
    /\ all_rows = << HDR_NAMED, ROW_A, ROW_CARRY >>
    /\ summed /\ total_for_row = 10
    /\ current_line_name = T_TIEA
    /\ results = (T_TIEA :> (T_EXPORT :> 20))

\* the numeric value of hour column idx in row r: 0 when the row does not
\* reach the column or the cell is blank or does not parse
HourValue(r, idx) ==
    IF idx < Len(r) /\ Strip(r[idx + 1]) # <<>> /\ ParseFloat(Strip(r[idx + 1])).ok
    THEN ParseFloat(Strip(r[idx + 1])).val
    ELSE 0

\* float sum of the first n values of q, left to right from 0.0
RECURSIVE FloatSum(_, _)
FloatSum(q, n) == IF n = 0 THEN 0 ELSE FRound(FloatSum(q, n - 1) + q[n])

\* C7: the amount a summed row adds to its (tie, flow type) total is the sum
\* of the numeric values of its hour cells, a blank, non-numeric or missing
\* cell counting 0 without ending the sum; a decodable file never raises.
C7_RowSum ==
    [][ /\ (decodable => pc' # "raised")
        /\ (RowStepTaken /\ summed') =>
            LET amount == FloatSum([k \in 1..Len(hour_cols) |->
                                      HourValue(ThisRow, hour_cols[k])],
                                   Len(hour_cols))
            IN  /\ total_for_row' = amount
                /\ AddedUnder(results, results', current_line_name',
                              FlowKey(ThisRow, flow_col_index'), amount)
      ]_vars

\* C7 witness: the row with hour cells " 10 " and "N/A" has been summed to 10
\* and added under (TieB, Export).
C7_Witness ==
    /\ pc = "rows" /\ row_pos = 3
    /\ all_rows = << HDR_NAMED, ROW_IMPORT, ROW_CARRY >>
    /\ summed /\ total_for_row = 10
    /\ results = (T_TIEB :> ((T_IMPORT :> 3) @@ (T_EXPORT :> 10)))

\* ------------------------------------------------------------------ claims: yearly merger

\* the inputs in another order
Reordered(q) ==
    {[i \in 1..Len(q) |-> q[p[i]]] : p \in Permutations(1..Len(q))}

PairsIn(q) == UNION {Items(q[i]) : i \in 1..Len(q)}

\* the values one (line, flow type) pair has in the inputs, 0 where absent
ValuesOf(q, pair) == [i \in 1..Len(q) |-> ValueAt(q[i], pair[1], pair[2])]

RECURSIVE ExactSum(_, _)
ExactSum(q, n) == IF n = 0 THEN 0 ELSE ExactSum(q, n - 1) + q[n]

\* no partial sum of q needs rounding
NoRounding(q) == \A n \in 1..Len(q) : FRound(ExactSum(q, n)) = ExactSum(q, n)

\* C8 as stated: the output holds exactly the pairs of the inputs, each with
\* the sum of its values, and that sum is the same for every order of the
\* input list.
C8_AsStated ==
    merge_pc = "returned" =>
        /\ Items(yearly) = PairsIn(list_of_results)
        /\ \A q \in Reordered(list_of_results) :
              \A pair \in PairsIn(list_of_results) :
                  yearly[pair[1]][pair[2]] = FloatSum(ValuesOf(q, pair), Len(q))

\* C8 amended: the output holds exactly the pairs of the inputs, each with the
\* float sum of its values taken in list order; another order of the list
\* gives the same pairs, and the same values when the list has at most two
\* maps or no partial sum is rounded in either order.
C8_FoldInListOrder ==
    merge_pc = "returned" =>
        /\ Items(yearly) = PairsIn(list_of_results)
        /\ DOMAIN yearly = {pair[1] : pair \in PairsIn(list_of_results)}
        /\ \A pair \in PairsIn(list_of_results) :
              yearly[pair[1]][pair[2]] =
                  FloatSum(ValuesOf(list_of_results, pair), Len(list_of_results))
        /\ \A q \in Reordered(list_of_results) :
              /\ Items(merge_results(q)) = Items(yearly)
              /\ (\/ Len(q) <= 2
                  \/ \A pair \in PairsIn(list_of_results) :
                        /\ NoRounding(ValuesOf(q, pair))
                        /\ NoRounding(ValuesOf(list_of_results, pair)))
                    => merge_results(q) = yearly

\* C8 witness: the two maps of the example merged to {"-A": {Export: 15, Import: 2}}
C8_Witness ==
    /\ merge_pc = "returned"
    /\ list_of_results = << (T_MINUS_A :> (KEY_EXPORT :> 10)),
                            (T_MINUS_A :> ((KEY_EXPORT :> 5) @@ (KEY_IMPORT :> 2))) >>
    /\ yearly = (T_MINUS_A :> ((KEY_EXPORT :> 15) @@ (KEY_IMPORT :> 2)))

\* ------------------------------------------------------------------ claims: folder runs

\* the per-tie report block of a log text
ReportLine(line) ==
    line.kind \in {"Results for", "No data found", "Line", "Export total", "Import total"}
ReportBlock(text) == SelectSeq(text, ReportLine)

\* the subfolder the last finished iteration was about
LastSub == SubNamed(subfolders[sub_pos])

\* C9: a dry run never writes (no output path, no output file, whatever the
\* output folder), and a subfolder's dry run returns the yearly totals and
\* the report block that its run with dry_run = false returns.
C9_DryRunComputesOnly ==
    dry_run =>
        /\ disk = EmptyDict
        /\ all_outputs = <<>>
        /\ sub_pos >= 1 =>
            /\ out_path = NoPath
            /\ LET wet == process_single_subfolder(LastSub, FALSE, prefer_updates,
                                                   output_folder, EmptyDict)
               IN  ~wet.raised =>
                      /\ sub_yearly = wet.yearly
                      /\ ReportBlock(log_text) = ReportBlock(wet.log)

\* C9 witness: a dry run with an output folder given has returned non-empty
\* totals for a subfolder whose run with dry_run = false writes a file.
C9_Witness ==
    /\ dry_run /\ output_folder = "out" /\ sub_pos >= 1
    /\ DOMAIN sub_yearly # {}
    /\ Len(ReportBlock(log_text)) >= 4
    /\ process_single_subfolder(LastSub, FALSE, prefer_updates,
                                output_folder, EmptyDict).out_path # NoPath
    /\ out_path = NoPath /\ disk = EmptyDict

\* a subfolder nothing is wrong with: it is there, its files decode, and the
\* output folder, if one is written to, can be created
Healthy(sub) ==
    /\ sub.present
    /\ \A n \in DOMAIN sub.files : sub.files[n].decodable
    /\ (dry_run \/ Falsy(output_folder) \/ Creatable(output_folder))

RunEnded == run_pc \in {"returned", "raised"}

\* C10 as stated: when process_all_subfolders ends, every subfolder nothing
\* is wrong with has been processed and its report and output are returned,
\* whatever happened to the other subfolders.
C10_FailureIsolated ==
    RunEnded =>
        \A sub \in main_folder :
            Healthy(sub) =>
                LET r == process_single_subfolder(sub, dry_run, prefer_updates,
                                                  output_folder, EmptyDict)
                IN  /\ run_pc = "returned"
                    /\ \E k \in 1..Len(all_logs) : all_logs[k] = r.log
                    /\ r.out_path # NoPath =>
                          \E k \in 1..Len(all_outputs) : all_outputs[k] = r.out_path

\* ------------------------------------------------------------------ claims: decoding

\* the call of process_csv_file has ended, by return or by an exception
FileEnded == pc \in {"returned", "raised"}

\* C11 as stated: a file whose bytes are not valid UTF-8 is read all the same:
\* process_csv_file returns, and returns the totals of the rows the file
\* holds, exactly as it does for the same rows in valid UTF-8.
C11_UndecodableStillAggregated ==
    (FileEnded /\ ~decodable) =>
        /\ pc = "returned"
        /\ results = process_csv_file([rows |-> all_rows,
                                       decodable |-> TRUE]).results

\* ------------------------------------------------------------------ files exercising the flow column

\* both tokens in one row: the first one, at index 0, is the flow cell
ROW_BOTH == << T_IMPORT, T_EXPORT, T_TIEB, T_TIEB, T_3, T_1 >>
\* one cell only
ROW_ONE == << T_EXPORT >>
\* blank cells where the flow column can be, a name and hours after them
ROW_BLANKFLOW == << T_BLANK, T_BLANK, T_ZED, T_ZED, T_7, T_7 >>

FlowPool == { ROW_A, ROW_SHIFTED, ROW_BOTH, ROW_ONE, ROW_BLANKFLOW, ROW_NET,
              ROW_CARRY }

\* one of the two headers, then up to MaxRows data rows
FlowFiles ==
    { top \o body : top \in { << HDR_NAMED >>, << HDR_PLAIN >> },
                    body \in SeqsUpTo(FlowPool, MaxRows) }

InitFlow ==
    /\ all_rows \in FlowFiles
    /\ decodable = TRUE
    /\ pc = "open"
    /\ header_index = -1
    /\ hour_cols = <<>>
    /\ name_col_idx = None
    /\ row_pos = 0
    /\ current_line_name = <<>>
    /\ flow_col_index = None
    /\ results = EmptyDict
    /\ total_for_row = 0
    /\ summed = FALSE
    /\ SelIdle /\ MergeIdle /\ RunIdle

SpecFlow == InitFlow /\ [][NextFile]_vars

\* ------------------------------------------------------------------ claims: flow column

\* the indices of the cells of row r that equal export or import
FlowCells(r) ==
    {i \in 0..(Len(r) - 1) : Lower(Strip(r[i + 1])) \in {EXPORT_LC, IMPORT_LC}}

Min(S) == CHOOSE x \in S : \A y \in S : x <= y

\* the step changed neither the totals nor the current tie name
RowContributesNothing ==
    /\ results' = results
    /\ current_line_name' = current_line_name
    /\ ~summed'

\* C12: the flow column is unset until the first data row with a cell equal
\* to export or import, is then the index of the first such cell of that row,
\* and never changes afterwards; while it is unset the totals are empty and
\* no tie name is current, rows are taken once each in file order, and a row
\* not longer than the locked index is skipped with the lock unchanged.
C12_FlowColumnLock ==
    [][ /\ (flow_col_index # None => flow_col_index' = flow_col_index)
        /\ ((flow_col_index = None /\ ~RowStepTaken) => flow_col_index' = None)
        /\ ((flow_col_index = None /\ RowStepTaken) =>
               IF FlowCells(ThisRow) = {}
               THEN flow_col_index' = None /\ RowContributesNothing
               ELSE flow_col_index' = Min(FlowCells(ThisRow)))
        /\ (flow_col_index' = None =>
               results' = EmptyDict /\ current_line_name' = <<>>)
        /\ row_pos' >= row_pos
        /\ ((RowStepTaken /\ flow_col_index # None
                /\ Len(ThisRow) <= flow_col_index) =>
               RowContributesNothing)
      ]_vars

\* C12 witness: the Net row came before the lock and added nothing, the next
\* row locked the flow column at index 1 and was summed, and the one-cell row
\* after it, although its cell is Export, was skipped with the lock unchanged.
C12_Witness ==
    /\ pc = "rows" /\ row_pos = 4
    /\ all_rows = << HDR_NAMED, ROW_NET, ROW_SHIFTED, ROW_ONE >>
    /\ flow_col_index = 1
    /\ ~summed
    /\ results = (T_TIEA :> (T_EXPORT :> 2))

\* ------------------------------------------------------------------ claims: tie name source

\* the stripped cell of row r at index idx, blank when the row does not reach it
StrippedAt(r, idx) == IF idx < Len(r) THEN Strip(r[idx + 1]) ELSE <<>>

\* C13 as stated: in a file whose header has a name column, an Export/Import
\* row takes its tie name from that column only, so a row that does not reach
\* the column, or is blank there, leaves the current tie name unchanged; the
\* cell two right of the flow column is read only when the header has no
\* name column.
C13_NameFromNameColumnOnly ==
    [][ RowStepTaken =>
          LET source == IF name_col_idx # None THEN name_col_idx
                        ELSE flow_col_index' + 2
          IN  IF /\ IsFlowRow(ThisRow, flow_col_index')
                 /\ StrippedAt(ThisRow, source) # <<>>
              THEN current_line_name' = StrippedAt(ThisRow, source)
              ELSE current_line_name' = current_line_name
      ]_vars

\* ------------------------------------------------------------------ claims: what changes the totals

\* no data row of the file holds a cell equal to export or import
NoFlowToken ==
    \A k \in (header_index' + 2)..Len(all_rows) : FlowCells(all_rows[k]) = {}

\* C14: the totals change only in the step of a row whose flow cell equals
\* export or import while a non-empty tie name is current, and then by that
\* row's sum under (tie name, Export or Import); a row whose flow cell is
\* blank, Net or anything else, or that has no flow cell, changes neither the
\* totals nor the current tie name; every tie key is non-empty and every
\* flow-type key is Export or Import; without an export/import cell in any
\* data row the totals stay empty.
C14_OnlyFlowRowsCount ==
    [][ /\ (RowStepTaken =>
              IF /\ IsFlowRow(ThisRow, flow_col_index')
                 /\ current_line_name' # <<>>
              THEN /\ summed'
                   /\ AddedUnder(results, results', current_line_name',
                                 FlowKey(ThisRow, flow_col_index'),
                                 total_for_row')
              ELSE results' = results /\ ~summed')
        /\ ((RowStepTaken /\ ~IsFlowRow(ThisRow, flow_col_index')) =>
               current_line_name' = current_line_name)
        /\ (~RowStepTaken => results' = results)
        /\ \A l \in DOMAIN results' :
              /\ l # <<>>
              /\ DOMAIN results'[l] # {}
              /\ DOMAIN results'[l] \subseteq {T_EXPORT, T_IMPORT}
        /\ (NoFlowToken => results' = EmptyDict)
      ]_vars

\* C14 witness: after the row naming TieA, the row with a blank flow cell and
\* the name cell Zed changed neither the totals nor the current name, so the
\* nameless Export row after it was added under TieA (10 + 10).
C14_Witness ==
    /\ pc = "rows" /\ row_pos = 4
    /\ all_rows = << HDR_NAMED, ROW_A, ROW_BLANKFLOW, ROW_CARRY >>
    /\ summed
    /\ current_line_name = T_TIEA
    /\ results = (T_TIEA :> (T_EXPORT :> 20))

====
